---- MODULE Spec2Model ----
(***************************************************************************)
(* Model of app.py: a recruitment tracker that keeps one SQLite table,     *)
(* `companies`, filled from a spreadsheet (load_data_to_db), healed by     *)
(* init_db, read by query_db, marked by api_mark, exported by              *)
(* api_export_suitable.                                                    *)
(*                                                                         *)
(* Text.  A string is a sequence of characters.  A CJK character of the    *)
(* source is written as one ASCII token (its pinyin), e.g. the header      *)
(* '序号' is <<"xu","hao">>; " " is a blank; "A".."Z"/"a".."z" are Latin.  *)
(* Stored cell values are opaque TLA+ strings.                             *)
(*                                                                         *)
(* Storage.  Every helper opens its own connection (app.app_context()      *)
(* pushes a fresh `g`), sqlite3 opens a transaction implicitly before      *)
(* DELETE/INSERT/UPDATE and conn.commit() publishes it; a connection       *)
(* closed without commit rolls back.  `rows`/`seq` are the committed       *)
(* database, `txn` is the importing connection's uncommitted view.         *)
(***************************************************************************)
EXTENDS Integers, Sequences, FiniteSets, TLC

VARIABLES pc, tableExists, columns, rows, seq, txn, ret

vars == <<pc, tableExists, columns, rows, seq, txn, ret>>

(* ---------------------------- bounds ----------------------------------- *)
MaxRows == 2
MaxSeq == 2

(* ---------------------------- values ----------------------------------- *)
NULL == "<NULL>"
NaN == "<NaN>"
Timestamp == "<Timestamp>"
None == "<None>"

Range(s) == {s[i] : i \in 1..Len(s)}

(* ---------------------------- schema ----------------------------------- *)
TextColumns ==
  <<"serial_number", "company_name", "batch", "company_type", "industry",
    "recruitment_target", "positions", "application_status", "location",
    "update_time", "deadline", "official_announcement", "application_method",
    "referral_code">>

required_columns == TextColumns \o <<"is_suitable", "created_at">>

CreateTableColumns == {"id"} \cup Range(required_columns)

\* DEFAULT clause of a column: text columns have none (NULL),
\* is_suitable has the constant 0, created_at has CURRENT_TIMESTAMP.
ColumnDefault(col, t) ==
  IF col = "is_suitable" THEN 0
  ELSE IF col = "created_at" THEN t
  ELSE NULL

\* SQLite rejects ALTER TABLE ... ADD COLUMN with a non-constant default
\* (CURRENT_TIMESTAMP) on a table that already holds rows.
AlterAddColumnFails(col, rs) == col = "created_at" /\ rs # {}

(* ---------------------------- text ------------------------------------- *)
Blank == " "

LowerChar(c) ==
  CASE c = "A" -> "a"
    [] c = "B" -> "b"
    [] c = "C" -> "c"
    [] OTHER -> c

\* str.lower()
Lower(s) == [i \in 1..Len(s) |-> LowerChar(s[i])]

RECURSIVE LStrip(_)
LStrip(s) == IF s # <<>> /\ Head(s) = Blank THEN LStrip(Tail(s)) ELSE s

RECURSIVE RStrip(_)
RStrip(s) ==
  IF s # <<>> /\ s[Len(s)] = Blank THEN RStrip(SubSeq(s, 1, Len(s) - 1)) ELSE s

\* str.strip()
Strip(s) == RStrip(LStrip(s))

\* str(n) for the row numbers the model reaches
DecStr(n) ==
  CASE n = 1 -> "1"
    [] n = 2 -> "2"
    [] n = 3 -> "3"
    [] n = 4 -> "4"
    [] OTHER -> "n"

\* str(v) of a cell: text is itself, an empty cell (float nan) prints "nan",
\* a pandas Timestamp prints its ISO form.
Str(v) ==
  IF v = NaN THEN "nan"
  ELSE IF v = Timestamp THEN "2026-03-01 00:00:00"
  ELSE v

(* ---------------------------- column mapping --------------------------- *)
\* column_mapping, in dictionary order: <<spreadsheet header, <<db column>>>>.
\* A db column name is a one-token string.
column_mapping ==
  << << <<"xu", "hao">>, <<"serial_number">> >>,
     << <<"gong", "si", "ming", "cheng">>, <<"company_name">> >>,
     << <<"pi", "ci">>, <<"batch">> >>,
     << <<"qi", "ye", "xing", "zhi">>, <<"company_type">> >>,
     << <<"hang", "ye", "da", "lei">>, <<"industry">> >>,
     << <<"zhao", "pin", "dui", "xiang">>, <<"recruitment_target">> >>,
     << <<"zhao", "pin", "gang", "wei">>, <<"positions">> >>,
     << <<"wang", "shen", "zhuang", "tai">>, <<"application_status">> >>,
     << <<"gong", "zuo", "di", "dian">>, <<"location">> >>,
     << <<"geng", "xin", "shi", "jian">>, <<"update_time">> >>,
     << <<"jie", "zhi", "shi", "jian">>, <<"deadline">> >>,
     << <<"guan", "fang", "gong", "gao">>, <<"official_announcement">> >>,
     << <<"tou", "di", "fang", "shi">>, <<"application_method">> >>,
     << <<"nei", "tui", "ma", "/", "bei", "zhu">>, <<"referral_code">> >> >>

\* excel_columns: every header of the frame, stripped
excel_columns(df) == [i \in 1..Len(df.columns) |-> Strip(df.columns[i])]

\* the first ec of excel_columns equal to excel_col up to case, or <<>> for none
RECURSIVE FuzzyFind(_, _, _)
FuzzyFind(ecs, excel_col, i) ==
  IF i > Len(ecs) THEN <<>>
  ELSE IF Lower(ecs[i]) = Lower(excel_col) THEN <<ecs[i]>>
  ELSE FuzzyFind(ecs, excel_col, i + 1)

\* mapped_columns after the first k entries of column_mapping:
\* a function from header text to db column name
RECURSIVE mapped_columns(_, _)
mapped_columns(df, k) ==
  IF k = 0 THEN <<>>
  ELSE
    LET prev == mapped_columns(df, k - 1)
        excel_col == column_mapping[k][1]
        db_col == column_mapping[k][2]
        ecs == excel_columns(df)
        hit == FuzzyFind(ecs, excel_col, 1)
    IN  IF excel_col \in Range(ecs) THEN (excel_col :> db_col) @@ prev
        ELSE IF hit # <<>> THEN (hit[1] :> db_col) @@ prev
        ELSE prev

\* df.rename(columns=mapped_columns): a column is renamed when its own
\* (unstripped) label is a key of the mapping
Rename(df) ==
  LET m == mapped_columns(df, Len(column_mapping))
  IN  [df EXCEPT !.columns =
         [i \in 1..Len(df.columns) |->
            IF df.columns[i] \in DOMAIN m THEN m[df.columns[i]] ELSE df.columns[i]]]

\* row.get(name, default) on row idx (0-based) of the frame
RowGet(df, idx, name, default) ==
  IF \E j \in 1..Len(df.columns) : df.columns[j] = <<name>>
  THEN df.data[idx + 1][CHOOSE j \in 1..Len(df.columns) : df.columns[j] = <<name>>]
  ELSE default

\* insert_data: the 14 values bound to the INSERT, in TextColumns order
insert_data(df, idx) ==
  [k \in 1..Len(TextColumns) |->
     IF k = 1 THEN Str(RowGet(df, idx, "serial_number", DecStr(idx + 1)))
     ELSE RowGet(df, idx, TextColumns[k], "")]

\* sqlite3 cannot bind a pandas Timestamp; a float nan is stored as NULL
Unbindable(v) == v = Timestamp

Bind(v) == IF v = NaN THEN NULL ELSE v

\* INSERT INTO companies (...14 columns...) VALUES (?,...): raises when a
\* value cannot be bound or a named column does not exist
InsertFails(cols, data) ==
  \/ \E k \in 1..Len(data) : Unbindable(data[k])
  \/ ~(Range(TextColumns) \subseteq cols)

\* the row an INSERT stores: AUTOINCREMENT id, bound values, column defaults
InsertedRow(cols, data, id, t) ==
  [c \in cols |->
     IF c = "id" THEN id
     ELSE IF \E k \in 1..Len(TextColumns) : TextColumns[k] = c
     THEN Bind(data[CHOOSE k \in 1..Len(TextColumns) : TextColumns[k] = c])
     ELSE ColumnDefault(c, t)]

(* ---------------------------- spreadsheets ----------------------------- *)
\* How a sheet writes the header of canonical column k.
Label(k, style) ==
  CASE style = "exact" -> column_mapping[k][1]
    [] style = "lpad" -> <<Blank>> \o column_mapping[k][1]
    [] style = "rpad" -> column_mapping[k][1] \o <<Blank>>
    [] style = "pad" -> <<Blank>> \o column_mapping[k][1] \o <<Blank, Blank>>

AllExact == [k \in 1..Len(column_mapping) |-> "exact"]

\* header rows of the sheets the model imports: per canonical column, how it
\* is written, or "absent"
HeaderStyles ==
  { AllExact,
    [AllExact EXCEPT ![2] = "lpad", ![9] = "absent"] }

\* a wider choice for the header reconciliation: the serial number column and
\* one filter column written in any style, the rest exact
StyleNames == {"exact", "lpad", "rpad", "pad", "absent"}

WideHeaderStyles ==
  {[[AllExact EXCEPT ![1] = s1] EXCEPT ![k2] = s2] :
     k2 \in {5, 9}, s1 \in StyleNames, s2 \in StyleNames}

\* cells of the data rows, per canonical column
RowPool ==
  { <<"7", "Acme", "b1", "State", "Tech", "2026", "dev", "open", "Beijing",
      "u1", "2026-03-01", "o1", "web", "r1">>,
    <<Timestamp, "Beta", "b1", "Private", "Tech", "2026", "ops", "open", Timestamp,
      "u2", NaN, "o2", "mail", "">> }

RECURSIVE SeqsUpTo(_, _)
SeqsUpTo(S, n) ==
  IF n = 0 THEN {<<>>}
  ELSE LET shorter == SeqsUpTo(S, n - 1)
       IN  shorter \cup {Append(q, x) : q \in {t \in shorter : Len(t) = n - 1}, x \in S}

\* the canonical columns a header row carries, in sheet order
Present(hs) == SelectSeq([k \in 1..Len(column_mapping) |-> k], LAMBDA k : hs[k] # "absent")

\* pd.read_excel of a sheet written with header styles hs and data rows rs
Frame(hs, rs) ==
  LET ks == Present(hs)
  IN  [columns |-> [j \in 1..Len(ks) |-> Label(ks[j], hs[ks[j]])],
       data |-> [i \in 1..Len(rs) |-> [j \in 1..Len(ks) |-> rs[i][ks[j]]]]]

\* what may sit at EXCEL_FILE when an import runs
FilesOf(styles, n) ==
  {[kind |-> "missing"], [kind |-> "corrupt"]}
  \cup {[kind |-> "sheet", df |-> Frame(hs, rs)] :
          hs \in styles, rs \in SeqsUpTo(RowPool, n)}

Files == FilesOf(HeaderStyles, MaxRows)

WideFiles == FilesOf(WideHeaderStyles, MaxRows)

(* ---------------------------- storage ---------------------------------- *)
\* get_db_connection: sqlite3.connect(DATABASE) with the default isolation
\* level.  What other connections see after a statement of an open
\* transaction: still the committed contents, not the connection's work.
VisibleAutocommit(committed, work) == work

Visible(committed, work) == committed

\* CURRENT_TIMESTAMP: the clock is not modelled, every reading is "now"
CurrentTimestamp == "now"

\* ALTER TABLE companies ADD COLUMN col: existing rows get the default
AddColumn(rs, col, t) ==
  {[c \in DOMAIN r \cup {col} |-> IF c = col THEN ColumnDefault(col, t) ELSE r[c]] : r \in rs}

RECURSIVE AddColumns(_, _, _)
AddColumns(rs, cs, t) ==
  IF cs = {} THEN rs
  ELSE LET c == CHOOSE x \in cs : TRUE
       IN  AddColumns(AddColumn(rs, c, t), cs \ {c}, t)

\* init_db: add every missing required column whose ALTER succeeds, then
\* CREATE TABLE IF NOT EXISTS
init_db(exists, cols, rs, t) ==
  IF exists
  THEN LET added == {c \in Range(required_columns) :
                       c \notin cols /\ ~AlterAddColumnFails(c, rs)}
       IN  [tableExists |-> TRUE, columns |-> cols \cup added,
            rows |-> AddColumns(rs, added, t)]
  ELSE [tableExists |-> TRUE, columns |-> CreateTableColumns, rows |-> {}]

DeleteFromNothing(rs) == rs

\* cursor.execute('DELETE FROM companies')
DeleteFrom(rs) == {}

CountErrorLost(n) == n

\* error_count += 1
CountError(n) == n + 1

\* ORDER BY id
RECURSIVE SortById(_)
SortById(rs) ==
  IF rs = {} THEN <<>>
  ELSE LET first == CHOOSE r \in rs : \A o \in rs : r["id"] <= o["id"]
       IN  <<first>> \o SortById(rs \ {first})

\* get_all_companies: SELECT * FROM companies ORDER BY id
get_all_companies(rs) == SortById(rs)

\* api_company: SELECT * FROM companies WHERE id = ?, one=True
\* (<<>> stands for the JSON null of an absent id)
api_company_result(rs, id) ==
  IF \E r \in rs : r["id"] = id THEN <<CHOOSE r \in rs : r["id"] = id>> ELSE <<>>

(* ---------------------------- filters ---------------------------------- *)
\* request parameter -> column, in the order api_companies tests them
FilterParams ==
  << <<"industry", "industry">>, <<"type", "company_type">>,
     <<"location", "location">>, <<"qiyexing", "recruitment_target">>,
     <<"jie", "deadline">> >>

ConstrainsAll(v) == v # None /\ v # ""

\* `if v and v != 'all'`: the parameter adds a predicate
Constrains(v) == v # None /\ v # "" /\ v # "all"

\* SQL `col = ?` (never true of NULL)
SqlEq(x, v) == x # NULL /\ x = v

Matches(r, f) ==
  \A i \in 1..Len(FilterParams) :
    Constrains(f[FilterParams[i][1]]) => SqlEq(r[FilterParams[i][2]], f[FilterParams[i][1]])

\* api_companies: WHERE 1=1 AND ... ORDER BY id
api_companies_result(rs, f) == SelectSeq(SortById(rs), LAMBDA r : Matches(r, f))

(* ---------------------------- mark ------------------------------------- *)
mark_value_swapped(suitable) == IF suitable THEN 2 ELSE 1

mark_value_reset(suitable) == IF suitable THEN 1 ELSE 0

\* mark_value = 1 if suitable else 2
mark_value(suitable) == IF suitable THEN 1 ELSE 2

\* UPDATE companies SET is_suitable = ? WHERE id = ?
UpdateSuitable(rs, id, v) ==
  {IF r["id"] = id THEN [r EXCEPT !["is_suitable"] = v] ELSE r : r \in rs}

(* ---------------------------- export ----------------------------------- *)
\* headers of the exported sheet
export_headers ==
  << <<"xu", "hao">>, <<"gong", "si", "ming", "cheng">>, <<"pi", "ci">>,
     <<"qi", "ye", "xing", "zhi">>, <<"hang", "ye", "da", "lei">>,
     <<"zhao", "pin", "dui", "xiang">>, <<"zhao", "pin", "gang", "wei">>,
     <<"wang", "shen", "zhuang", "tai">>, <<"gong", "zuo", "di", "dian">>,
     <<"jie", "zhi", "shi", "jian">>, <<"tou", "di", "fang", "shi">>,
     <<"nei", "tui", "ma", "/", "bei", "zhu">> >>

\* the columns written per company, in order
export_fields ==
  <<"serial_number", "company_name", "batch", "company_type", "industry",
    "recruitment_target", "positions", "application_status", "location",
    "deadline", "application_method", "referral_code">>

suitable_companies_marked(rs) == SelectSeq(SortById(rs), LAMBDA r : r["is_suitable"] # 0)

\* SELECT * FROM companies WHERE is_suitable = 1 ORDER BY id
suitable_companies(rs) == SelectSeq(SortById(rs), LAMBDA r : r["is_suitable"] = 1)

\* company.get(field, '')
CompanyGet(r, field) == IF field \in DOMAIN r THEN r[field] ELSE ""

export_row(r) == [k \in 1..Len(export_fields) |-> CompanyGet(r, export_fields[k])]

\* api_export_suitable: the 400 error, or the sheet as a list of rows
api_export_suitable_result(rs) ==
  LET companies == suitable_companies(rs)
  IN  IF companies = <<>>
      THEN [status |-> "error", sheet |-> <<>>]
      ELSE [status |-> "file",
            sheet |-> <<export_headers>> \o
                      [i \in 1..Len(companies) |-> export_row(companies[i])]]

(* ---------------------------- state ------------------------------------ *)
\* txn.old remembers the committed rows at the start of the import
NoTxn ==
  [active |-> FALSE, df |-> Frame(AllExact, <<>>), idx |-> 0,
   rows |-> {}, seq |-> 0, error_count |-> 0, old |-> {}]

NoRet == [op |-> "none"]

\* columns a database file left by an earlier version may lack
LegacyMissable == {"location", "is_suitable", "created_at"}

LegacyRow(cols, s) ==
  [c \in cols |->
     IF c = "id" THEN 1
     ELSE IF c = "is_suitable" THEN s
     ELSE "old"]

\* The database file found at start: none, or a companies table written by
\* an earlier version of init_db, empty or with one row.
Init ==
  /\ pc = "boot"
  /\ txn = NoTxn
  /\ ret = NoRet
  /\ \/ /\ tableExists = FALSE
        /\ columns = {}
        /\ rows = {}
        /\ seq = 0
     \/ \E missing \in SUBSET LegacyMissable :
          /\ tableExists = TRUE
          /\ columns = CreateTableColumns \ missing
          /\ \/ rows = {} /\ seq = 0
             \/ \E s \in {0, 1} : rows = {LegacyRow(columns, s)} /\ seq = 1

(* ---------------------------- import steps ----------------------------- *)
\* load_data_to_db up to and including the DELETE (lines 121-176), on the
\* database db = [tableExists, columns, rows].  The server takes requests
\* (pc = "serving") only once initialize_app has returned.
LoadBegin(file, db) ==
  /\ tableExists' = db.tableExists
  /\ columns' = db.columns
  /\ seq' = seq
  /\ IF file.kind = "missing"
     THEN /\ ret' = [op |-> "import", success |-> FALSE, msg |-> "missing"]
          /\ rows' = db.rows
          /\ txn' = NoTxn
          /\ pc' = "serving"
     ELSE IF file.kind = "corrupt"
     THEN /\ ret' = [op |-> "import", success |-> FALSE, msg |-> "unreadable"]
          /\ rows' = db.rows
          /\ txn' = NoTxn
          /\ pc' = "serving"
     ELSE /\ ret' = NoRet
          /\ pc' = IF pc = "bootcheck" THEN "bootload" ELSE pc
          /\ txn' = [active |-> TRUE, df |-> Rename(file.df),
                     idx |-> 0, rows |-> DeleteFrom(db.rows), seq |-> seq,
                     error_count |-> 0, old |-> db.rows]
          /\ rows' = Visible(db.rows, DeleteFrom(db.rows))

\* initialize_app, first half: init_db()
initialize_app_init ==
  /\ pc = "boot"
  /\ LET db == init_db(tableExists, columns, rows, CurrentTimestamp)
     IN  /\ tableExists' = db.tableExists
         /\ columns' = db.columns
         /\ rows' = db.rows
  /\ pc' = "bootcheck"
  /\ UNCHANGED <<seq, txn, ret>>

\* initialize_app, second half: load the file when the table is empty and
\* the file exists; then the server starts
LoadAtStart(files) ==
  /\ pc = "bootcheck"
  /\ \E file \in files :
       IF rows = {} /\ file.kind # "missing"
       THEN LoadBegin(file, [tableExists |-> tableExists, columns |-> columns,
                             rows |-> rows])
       ELSE /\ pc' = "serving"
            /\ UNCHANGED <<tableExists, columns, rows, seq, txn, ret>>

initialize_app_load == LoadAtStart(Files)

\* api_reload_data: init_db(), then load_data_to_db(EXCEL_FILE)
api_reload_data ==
  /\ pc = "serving"
  /\ ~txn.active
  /\ seq < MaxSeq
  /\ \E file \in Files :
       LoadBegin(file, init_db(tableExists, columns, rows, CurrentTimestamp))

\* one turn of `for idx, row in df.iterrows()` (lines 179-212)
ImportRow ==
  /\ txn.active
  /\ txn.idx < Len(txn.df.data)
  /\ LET data == insert_data(txn.df, txn.idx)
         work ==
           IF InsertFails(columns, data)
           THEN [txn EXCEPT !.idx = @ + 1, !.error_count = CountError(@)]
           ELSE [txn EXCEPT !.idx = @ + 1, !.seq = @ + 1,
                            !.rows = @ \cup {InsertedRow(columns, data, txn.seq + 1,
                                                         CurrentTimestamp)}]
     IN  /\ txn' = work
         /\ rows' = Visible(rows, work.rows)
         /\ seq' = Visible(seq, work.seq)
  /\ UNCHANGED <<pc, tableExists, columns, ret>>

\* conn.commit(); conn.close(); return True, ... (lines 214-219)
ImportCommit ==
  /\ txn.active
  /\ txn.idx = Len(txn.df.data)
  /\ rows' = txn.rows
  /\ seq' = txn.seq
  /\ ret' = [op |-> "import", success |-> TRUE,
             msg |-> IF txn.error_count > 0 THEN "partial" ELSE "all",
             total |-> Len(txn.df.data), failed |-> txn.error_count]
  /\ txn' = NoTxn
  /\ pc' = "serving"
  /\ UNCHANGED <<tableExists, columns>>

\* conn.commit() raises (sqlite3.OperationalError): caught at line 220, the
\* connection is closed by close_connection without a commit
ImportCommitError ==
  /\ txn.active
  /\ txn.idx = Len(txn.df.data)
  /\ ret' = [op |-> "import", success |-> FALSE, msg |-> "failed"]
  /\ txn' = NoTxn
  /\ rows' = Visible(rows, txn.rows)
  /\ seq' = Visible(seq, txn.seq)
  /\ pc' = "serving"
  /\ UNCHANGED <<tableExists, columns>>

(* ---------------------------- requests --------------------------------- *)
Ids == 0..(MaxSeq + MaxRows - 1)

\* api_mark; id 0 stands for a missing or null id.  While an import holds
\* the write lock the UPDATE raises "database is locked".
api_mark ==
  /\ pc = "serving"
  /\ \E id \in Ids, suitable \in BOOLEAN :
       IF id = 0
       THEN /\ ret' = [op |-> "mark", status |-> "error", id |-> id, suitable |-> suitable]
            /\ rows' = rows
       ELSE IF txn.active
       THEN /\ ret' = [op |-> "mark", status |-> "exception", id |-> id,
                       suitable |-> suitable]
            /\ rows' = rows
       ELSE /\ ret' = [op |-> "mark", status |-> "success", id |-> id,
                       suitable |-> suitable]
            /\ rows' = UpdateSuitable(rows, id, mark_value(suitable))
  /\ UNCHANGED <<pc, tableExists, columns, seq, txn>>

\* index(): get_all_companies() on a connection of its own
index ==
  /\ pc = "serving"
  /\ ret' = [op |-> "all", result |-> get_all_companies(rows)]
  /\ UNCHANGED <<pc, tableExists, columns, rows, seq, txn>>

\* api_company(id)
api_company ==
  /\ pc = "serving"
  /\ \E id \in Ids \ {0} :
       ret' = [op |-> "get", id |-> id, result |-> api_company_result(rows, id)]
  /\ UNCHANGED <<pc, tableExists, columns, rows, seq, txn>>

\* api_export_suitable
api_export_suitable ==
  /\ pc = "serving"
  /\ ret' = [op |-> "export", out |-> api_export_suitable_result(rows)]
  /\ UNCHANGED <<pc, tableExists, columns, rows, seq, txn>>

\* request.args of api_companies: None is an absent parameter
Filters ==
  [industry : {None, "all", "", "Tech"},
   type : {None, "State"},
   location : {None, "", "Beijing"},
   qiyexing : {None, "2026"},
   jie : {None, "all"}]

\* api_companies
api_companies ==
  /\ pc = "serving"
  /\ \E f \in Filters :
       ret' = [op |-> "list", filters |-> f, result |-> api_companies_result(rows, f)]
  /\ UNCHANGED <<pc, tableExists, columns, rows, seq, txn>>

Next ==
  \/ initialize_app_init
  \/ initialize_app_load
  \/ api_reload_data
  \/ ImportRow
  \/ ImportCommit
  \/ ImportCommitError
  \/ api_mark
  \/ index
  \/ api_company
  \/ api_export_suitable

Spec == Init /\ [][Next]_vars

(* A first start on a machine without a database file, one load of any of  *)
(* the wider sheets, then filter queries.                                  *)
InitQuery ==
  /\ pc = "bootcheck"
  /\ txn = NoTxn
  /\ ret = NoRet
  /\ tableExists = TRUE
  /\ columns = CreateTableColumns
  /\ rows = {}
  /\ seq = 0

initialize_app_load_wide == LoadAtStart(WideFiles)

NextQuery ==
  \/ initialize_app_load_wide
  \/ ImportRow
  \/ ImportCommit
  \/ api_companies

SpecQuery == InitQuery /\ [][NextQuery]_vars

(* ======================================================================= *)
(* Properties                                                              *)
(* ======================================================================= *)
\* 0-based indices of the rows of df whose INSERT succeeds, in order
StoredIdx(df, cols) ==
  SelectSeq([i \in 1..Len(df.data) |-> i - 1],
            LAMBDA i : ~InsertFails(cols, insert_data(df, i)))

\* posting r holds the 14 values `data`
Carries(r, data) == \A k \in 1..Len(TextColumns) : r[TextColumns[k]] = Bind(data[k])

\* the step on which a started import returns success
ImportReturnsTrue == txn.active /\ ~txn'.active /\ ret'.op = "import" /\ ret'.success

\* C1 as stated: after a successful import of B over earlier contents A, the
\* listing holds exactly one Posting per row of B, in order, and none of A's.
C1_ReimportOnePerRow ==
  [][ImportReturnsTrue =>
       LET listing == get_all_companies(rows')
       IN  /\ Len(listing) = Len(txn.df.data)
           /\ \A i \in 1..Len(listing) : Carries(listing[i], insert_data(txn.df, i - 1))
           /\ \A r \in rows', o \in txn.old : r["id"] # o["id"]]_vars

\* C1 amended: after a successful import of B over earlier contents A, the
\* listing holds exactly one Posting per row of B whose insertion did not
\* fail, in row order, and no Posting of A.
C1_ReimportReplaces ==
  [][ImportReturnsTrue =>
       LET listing == get_all_companies(rows')
           ok == StoredIdx(txn.df, columns)
       IN  /\ Len(listing) = Len(ok)
           /\ \A i \in 1..Len(listing) : Carries(listing[i], insert_data(txn.df, ok[i]))
           /\ \A r \in rows', o \in txn.old : r["id"] # o["id"]]_vars

\* a second import has returned: its Postings are stored, the ids of the
\* earlier contents are gone
C1_Witness ==
  /\ ret.op = "import"
  /\ ret.success
  /\ ret.total = 2
  /\ rows # {}
  /\ \A r \in rows : r["id"] >= 2

\* C2: a reader that runs on its own connection between the DELETE and the
\* commit of an import sees the complete old collection (and after the
\* commit the complete new one), never an empty or partial one.
C2_AtomicReplace ==
  txn.active =>
    /\ rows = txn.old
    /\ ret.op = "all" => ret.result = get_all_companies(txn.old)
    /\ ret.op = "get" => ret.result = api_company_result(txn.old, ret.id)

\* a listing was read while the import had deleted the old rows and
\* inserted some of the new ones
C2_Witness ==
  /\ txn.active
  /\ txn.idx >= 1
  /\ txn.rows # {}
  /\ txn.old # {}
  /\ ret.op = "all"
  /\ ret.result # <<>>

\* C3: markSuitability(id, s) that returns success on a stored id sets that
\* Posting's suitability to 1 for true and 2 for false, and changes no other
\* field and no other Posting.
C3_MarkSetsSuitability ==
  [][(ret'.op = "mark" /\ ret'.status = "success" /\ ~txn.active /\ ~txn'.active
        /\ \E r \in rows : r["id"] = ret'.id) =>
       /\ {r["id"] : r \in rows'} = {r["id"] : r \in rows}
       /\ Cardinality(rows') = Cardinality(rows)
       /\ \A r \in rows : \E n \in rows' :
            /\ n["id"] = r["id"]
            /\ \A c \in DOMAIN r \ {"is_suitable"} : n[c] = r[c]
            /\ r["id"] # ret'.id => n = r
            /\ r["id"] = ret'.id =>
                 n["is_suitable"] = (IF ret'.suitable THEN 1 ELSE 2)
       /\ api_company_result(rows', ret'.id)[1]["is_suitable"]
            = (IF ret'.suitable THEN 1 ELSE 2)]_vars

\* a stored Posting was marked not suitable
C3_Witness ==
  /\ ret.op = "mark"
  /\ ret.status = "success"
  /\ ~ret.suitable
  /\ \E r \in rows : r["id"] = ret.id /\ r["is_suitable"] = 2

\* the listing is in ascending id order and holds exactly the rows of want
ListsExactly(result, want) ==
  /\ Range(result) = want
  /\ Len(result) = Cardinality(want)
  /\ \A i, j \in 1..Len(result) : i < j => result[i]["id"] < result[j]["id"]

\* C4 as stated: the listing holds exactly the Postings equal to every given
\* filter, where only an absent filter or "all" places no constraint.
C4_FilterAbsentOrAll ==
  ret.op = "list" =>
    ListsExactly(ret.result,
      {r \in rows : \A i \in 1..Len(FilterParams) :
         ret.filters[FilterParams[i][1]] \notin {None, "all"}
           => r[FilterParams[i][2]] = ret.filters[FilterParams[i][1]]})

\* C4 amended: the listing holds exactly the Postings equal to every given
\* filter, where an absent filter, an empty filter or "all" places no
\* constraint; predicates are ANDed; the order is ascending id.
C4_FilterNonEmpty ==
  ret.op = "list" =>
    ListsExactly(ret.result,
      {r \in rows : \A i \in 1..Len(FilterParams) :
         ret.filters[FilterParams[i][1]] \notin {None, "", "all"}
           => r[FilterParams[i][2]] = ret.filters[FilterParams[i][1]]})

\* two predicates together select one of two stored Postings
C4_Witness ==
  /\ ret.op = "list"
  /\ ret.filters.industry = "Tech"
  /\ ret.filters.type = "State"
  /\ ret.filters.jie = "all"
  /\ Cardinality(rows) = 2
  /\ Len(ret.result) = 1

\* C5: the export fails exactly when no Posting has suitability 1; otherwise
\* the sheet is the 12-field header followed by one row per suitable Posting
\* in ascending id order, its columns in the fixed order, and nothing else.
C5_ExportSuitable ==
  ret.op = "export" =>
    LET S == {r \in rows : r["is_suitable"] = 1}
        sheet == ret.out.sheet
    IN  /\ (ret.out.status = "error") <=> (S = {})
        /\ S # {} =>
             /\ Len(sheet) = Cardinality(S) + 1
             /\ Len(sheet[1]) = 12
             /\ sheet[1] = export_headers
             /\ \A i \in 1..Cardinality(S) : \E r \in S :
                  /\ Cardinality({o \in S : o["id"] < r["id"]}) = i - 1
                  /\ sheet[i + 1] =
                       <<r["serial_number"], r["company_name"], r["batch"],
                         r["company_type"], r["industry"], r["recruitment_target"],
                         r["positions"], r["application_status"], r["location"],
                         r["deadline"], r["application_method"], r["referral_code"]>>

\* a sheet was exported while another Posting was marked not suitable
C5_Witness ==
  /\ ret.op = "export"
  /\ ret.out.status = "file"
  /\ Len(ret.out.sheet) = 2
  /\ \E r \in rows : r["is_suitable"] = 2

\* C6: a row whose insertion fails does not end the import; when the import
\* returns success the reported failure count is the number of failed rows,
\* every other row is stored and committed, and the number of stored
\* Postings is the total minus the failures.
C6_RowFailureTolerated ==
  [][/\ (txn.active /\ txn.idx < Len(txn.df.data) /\ txn' # txn
           /\ InsertFails(columns, insert_data(txn.df, txn.idx))) =>
          /\ txn'.active
          /\ txn'.idx = txn.idx + 1
          /\ txn'.rows = txn.rows
     /\ ImportReturnsTrue =>
          LET failed == {i \in 0..(Len(txn.df.data) - 1) :
                           InsertFails(columns, insert_data(txn.df, i))}
          IN  /\ ret'.total = Len(txn.df.data)
              /\ ret'.failed = Cardinality(failed)
              /\ ret'.msg = (IF failed = {} THEN "all" ELSE "partial")
              /\ Cardinality(rows') = ret'.total - ret'.failed
              /\ \A i \in 0..(Len(txn.df.data) - 1) :
                   i \notin failed =>
                     \E r \in rows' : Carries(r, insert_data(txn.df, i))]_vars

\* an import of two rows returned success with one failed and one stored row
C6_Witness ==
  /\ ret.op = "import"
  /\ ret.success
  /\ ret.msg = "partial"
  /\ ret.failed = 1
  /\ Cardinality(rows) = 1

\* C7 as stated: init_db on an existing table adds every missing canonical
\* column, drops none, and keeps every row's values.
C7_SchemaHealed ==
  [][(pc = "boot" /\ pc' = "bootcheck" /\ tableExists) =>
       /\ columns' = columns \cup Range(required_columns)
       /\ Cardinality(rows') = Cardinality(rows)
       /\ \A r \in rows : \E n \in rows' : \A c \in DOMAIN r : n[c] = r[c]]_vars

\* column j of the renamed frame belongs to canonical entry k: it was
\* renamed to k's field, or its trimmed header equals k's header, exactly or
\* up to case
HeaderMatches(df, j, k) ==
  \/ df.columns[j] = column_mapping[k][2]
  \/ Strip(df.columns[j]) = column_mapping[k][1]
  \/ Lower(Strip(df.columns[j])) = Lower(column_mapping[k][1])

\* C8 as stated: every column whose trimmed header matches a canonical name
\* is mapped to that name's field, so each stored Posting carries the
\* column's cell value in the field.
C8_TrimmedHeaderMapped ==
  txn.active =>
    \A r \in txn.rows : \E i \in 1..txn.idx :
      \A k \in 1..Len(column_mapping), j \in 1..Len(txn.df.columns) :
        HeaderMatches(txn.df, j, k) =>
          r[TextColumns[k]] =
            Bind(IF k = 1 THEN Str(txn.df.data[i][j]) ELSE txn.df.data[i][j])

\* C9: suitability is always 0, 1 or 2; a Posting whose suitability is 1 or 2
\* never returns to 0; and a successful mark leaves its Posting at 1 or 2.
C9_SuitabilityNeverReset ==
  /\ [](\A r \in rows : "is_suitable" \in DOMAIN r => r["is_suitable"] \in {0, 1, 2})
  /\ [][/\ \A r \in rows, n \in rows' :
             ("is_suitable" \in DOMAIN r /\ n["id"] = r["id"]
                /\ r["is_suitable"] \in {1, 2}) => n["is_suitable"] \in {1, 2}
        /\ (ret'.op = "mark" /\ ret'.status = "success") =>
             \A n \in rows' : n["id"] = ret'.id => n["is_suitable"] \in {1, 2}]_vars

\* one Posting is marked suitable while another was marked not suitable
C9_Witness ==
  /\ ret.op = "mark"
  /\ ret.status = "success"
  /\ ret.suitable
  /\ \E r, o \in rows :
       /\ r["id"] = ret.id
       /\ r["is_suitable"] = 1
       /\ o["id"] # r["id"]
       /\ o["is_suitable"] = 2

\* C10: when an import returns success=false the committed collection, marks
\* included, is what it was before the call.
C10_FailedImportNoChange ==
  [][(ret'.op = "import" /\ ~ret'.success /\ ~txn'.active /\ pc' = "serving"
        /\ pc # "boot") =>
       /\ rows' = (IF txn.active THEN txn.old ELSE rows)
       /\ seq' = seq]_vars

\* the commit of an import raised after the old rows, one of them marked,
\* were deleted and a new row inserted
C10_Witness ==
  /\ ret.op = "import"
  /\ ~ret.success
  /\ ret.msg = "failed"
  /\ \E r \in rows : r["is_suitable"] = 1

====
